---- MODULE Spec2Model ----
(***************************************************************************)
(* pywincffi: acquisition and caching of the native module                 *)
(* (pywincffi/core/dist.py) and the call contract of a wrapped function    *)
(* (pywincffi/shell32/security.py).                                        *)
(*                                                                         *)
(* Every thread of the process makes one call, either dist.load() or       *)
(* CheckTokenMembership(...).  A step of a thread is one statement of the  *)
(* code.  In Spec the calls of the process follow one another; in          *)
(* SpecThreads the threads call dist.load() and run interleaved, statement *)
(* by statement.                                                           *)
(***************************************************************************)
EXTENDS Integers, Sequences, FiniteSets, TLC

VARIABLES
    prebuilt,   \* what `import _pywincffi` does in this process
    files,      \* the definition fragments on disk
    runtime,    \* which loading mechanism the interpreter has
    cache,      \* Module.cache
    nextId,     \* number of Module instances constructed so far
    warned,     \* number of RuntimeWarnings emitted by Module.__init__
    fdt,        \* the process's descriptor table
    buf,        \* sys.stdout's library buffer
    content,    \* bytes that reached each descriptor target
    capfiles,   \* capture files (mkstemp) that exist
    dirs,       \* temp directories (mkdtemp) that exist
    artifacts,  \* compiled artifacts that exist
    firstOk,    \* the Module returned by the first load() that returned
    th          \* per thread: position, locals and what it has done

vars == <<prebuilt, files, runtime, cache, nextId, warned, fdt, buf, content,
          capfiles, dirs, artifacts, firstOk, th>>

-----------------------------------------------------------------------------
(* Bounds *)

NThreads == 2

Threads == 1..NThreads

-----------------------------------------------------------------------------
(* Program constants and values *)

MODULE_NAME == "_pywincffi"

HEADER_FILES == <<"constants.h", "structs.h", "functions.h">>

SOURCE_FILES == <<"main.c">>

Frags == {"constants.h", "structs.h", "functions.h", "main.c"}

\* Module.cache = None
None == [id |-> 0, src |-> "none", by |-> 0, mode |-> "none"]

\* the module object `import _pywincffi` binds
PrebuiltModule == [src |-> "site", by |-> 0]

\* the module object loaded from the artifact thread t compiled
BuiltModule(t) == [src |-> "pyd", by |-> t]

\* descriptor targets
Closed == [kind |-> "closed", id |-> 0]

Tty == [kind |-> "tty", id |-> 0]

Stderr == [kind |-> "stderr", id |-> 0]

Stdin == [kind |-> "stdin", id |-> 0]

Cap(t) == [kind |-> "cap", id |-> t]

Targets == {Tty, Stderr, Stdin} \cup {Cap(t) : t \in Threads}

\* every thread opens at most two descriptors beside stdin, stdout, stderr
Fds == 0..(2 + 2 * NThreads)

\* sys.stdout.fileno()
StdoutFd == 1

\* bytes
Pre == [who |-> 0, how |-> "pre"]

Raw(t) == [who |-> t, how |-> "raw"]

Buffered(t) == [who |-> t, how |-> "buffered"]

-----------------------------------------------------------------------------
(* Helpers on sequences *)

Count(s, e) == Cardinality({i \in 1..Len(s) : s[i] = e})

Has(s, e) == \E i \in 1..Len(s) : s[i] = e

\* every e in s comes before every f in s
Before(s, e, f) == \A i, j \in 1..Len(s) : (s[i] = e /\ s[j] = f) => i < j

-----------------------------------------------------------------------------
(* Pure functions *)

\* the text of fragment p
FileText(p) == <<p>>

\* open(path, "r") in _read: which error, if any, it raises
OpenError(fs, p) ==
    CASE fs[p] = "ok"      -> "none"
      [] fs[p] = "missing" -> "ENOENT"
      [] OTHER             -> "EACCES"

\* a _read that converts every open/read error
ReadError_any(errno) == "ResourceNotFoundError"

\* the conversion of an open/read error in _read (dist.py, lines 182-185)
ReadError(errno) ==
    IF errno = "ENOENT" THEN "ResourceNotFoundError" ELSE "OSError"

RECURSIVE ReadFrom(_, _, _, _)
ReadFrom(paths, fs, i, output) ==
    IF i > Len(paths)
    THEN [kind |-> "ok", blob |-> output, path |-> ""]
    ELSE IF OpenError(fs, paths[i]) # "none"
         THEN [kind |-> ReadError(OpenError(fs, paths[i])),
               blob |-> <<>>, path |-> paths[i]]
         ELSE ReadFrom(paths, fs, i + 1, output \o FileText(paths[i]))

\* _read(*paths)
_read(paths, fs) == ReadFrom(paths, fs, 1, <<>>)

\* _ffi(): the header blob, then the source blob
_ffi(fs) ==
    LET header == _read(HEADER_FILES, fs)
        source == _read(SOURCE_FILES, fs)
    IN  IF header.kind # "ok" THEN header
        ELSE IF source.kind # "ok" THEN source
        ELSE [kind |-> "ok", blob |-> header.blob \o source.blob, path |-> ""]

\* input_check(name, value, integer_types)
input_check(value) == IF value = "int" THEN "ok" ELSE "InputError"

\* error_check(operation): raises when the last-error signal is a failure
error_check(lastError) == IF lastError = "ok" THEN "ok" ELSE "WindowsAPIError"

\* what `import _pywincffi` raises
ImportRaises(p) ==
    CASE p = "ok"       -> "none"
      [] p = "notfound" -> "ImportError"
      [] p = "broken"   -> "ImportError"
      [] OTHER          -> "RuntimeError"

\* an except clause that catches every exception
Catches_all(e) == TRUE

\* the except clause of load() (dist.py, line 262)
Catches(e) == e = "ImportError"

\* a load() that never takes the hot path
CacheHit_never(c) == FALSE

\* the test of load()'s first statement (dist.py, line 254)
CacheHit(c) == c # None

\* the two provenance tags exchanged
ModeAt_swapped(pc) == IF pc = "L260" THEN "compiled" ELSE "prebuilt"

\* the provenance tag load() gives a module (dist.py, lines 260 and 263)
ModeAt(pc) == IF pc = "L260" THEN "prebuilt" ELSE "compiled"

\* an _import_path that prefers the legacy mechanism
Loader_legacy(rt) == "imp"

\* the loading mechanism _import_path picks (dist.py, lines 155-160)
Loader(rt) == IF rt = "modern" THEN "ExtensionFileLoader" ELSE "imp"

\* the lowest free descriptor, as dup() and mkstemp() allocate
LowestFree(t) == CHOOSE f \in Fds :
    /\ t[f] = Closed
    /\ \A g \in Fds : t[g] = Closed => f <= g

\* stream.flush(): the buffer reaches what descriptor 1 refers to
Flushed(c, t, b) == [c EXCEPT ![t[StdoutFd]] = @ \o b]

-----------------------------------------------------------------------------
(* input_check(name, value, allowed_types=None, allowed_values=None) *)

\* longest allowed_values sequence tried
MaxAllowed == 2

IntOne == [ty |-> "int", v |-> 1]

IntTwo == [ty |-> "int", v |-> 2]

StrA == [ty |-> "str", v |-> 0]

NoneValue == [ty |-> "NoneType", v |-> 0]

OpenFile == [ty |-> "file", v |-> 0]

Values == {IntOne, IntTwo, StrA, NoneValue, OpenFile}

ArgNames == {"", "foo"}

\* no allowed_types, one type or category, or a tuple of types
NoTypes == [given |-> FALSE, cats |-> {}]

Categories == {"str", "int", "type", "Enums.UTF8", "Enums.PYFILE", "Enums.BOGUS"}

Accepted ==
    {NoTypes} \cup {[given |-> TRUE, cats |-> {c}] : c \in Categories}
              \cup {[given |-> TRUE, cats |-> {"str", "int"}]}

\* no allowed_values, a sequence, or something that is no sequence
NoAllowed == [kind |-> "absent", items |-> <<>>]

NotASequence == [kind |-> "int", items |-> <<>>]

SeqsUpTo(n) == UNION {[1..k -> {IntOne, IntTwo, StrA}] : k \in 0..n}

AllowedValues ==
    {NoAllowed, NotASequence}
        \cup {[kind |-> "tuple", items |-> q] : q \in SeqsUpTo(MaxAllowed)}

Member(value, items) == \E i \in 1..Len(items) : items[i] = value

\* a resolution of a category that treats a failing probe as a crash
Resolve_crash(value, c) ==
    CASE c \in {"str", "int"}  -> IF value.ty = c THEN "yes" ELSE "no"
      [] c = "type"            -> "no"
      [] c = "Enums.UTF8"      -> IF value.ty = "str" THEN "yes" ELSE "crash"
      [] c = "Enums.PYFILE"    -> IF value.ty = "file" THEN "yes" ELSE "crash"
      [] OTHER                 -> "crash"

\* does the value satisfy the type or category c: yes, no, or the category
\* cannot be resolved on it (no such category, or the probe of the value fails)
Resolve(value, c) ==
    CASE c \in {"str", "int"}  -> IF value.ty = c THEN "yes" ELSE "no"
      [] c = "type"            -> "no"
      [] c = "Enums.UTF8"      -> IF value.ty = "str" THEN "yes" ELSE "fails"
      [] c = "Enums.PYFILE"    -> IF value.ty = "file" THEN "yes" ELSE "fails"
      [] OTHER                 -> "fails"

\* the outcome of the type/category gate
Gate(value, accepted) ==
    IF ~accepted.given \/ \E c \in accepted.cats : Resolve(value, c) = "yes"
    THEN "ok"
    ELSE IF \E c \in accepted.cats : Resolve(value, c) = "crash"
         THEN "AttributeError"
         ELSE "InputError"

Passed == [kind |-> "ok", allowed_values |-> NoAllowed,
           message |-> [name |-> "", expected |-> <<>>, got |-> NoneValue]]

\* InputError(name, value, allowed_types, allowed_values)
InputError(name, value, allowed) ==
    [kind |-> "InputError", allowed_values |-> allowed,
     message |-> [name |-> name, expected |-> allowed.items, got |-> value]]

Crash(e) == [Passed EXCEPT !.kind = e]

\* an allowed-values check that takes anything for a sequence
AllowedCheck_unchecked(name, value, allowed) ==
    IF allowed.kind = "absent" \/ Member(value, allowed.items)
    THEN {Passed}
    ELSE {InputError(name, value, allowed)}

\* the allowed-values check; what an empty sequence does is not specified
AllowedCheck(name, value, allowed) ==
    CASE allowed.kind = "absent" -> {Passed}
      [] allowed.kind # "tuple"  -> {Crash("AssertionError")}
      [] allowed.items = <<>>    -> {Crash("AssertionError"),
                                     InputError(name, value, allowed)}
      [] OTHER -> IF Member(value, allowed.items)
                  THEN {Passed}
                  ELSE {InputError(name, value, allowed)}

\* the outcomes of input_check(name, value, accepted, allowed)
input_check_outcomes(name, value, accepted, allowed) ==
    {r \in AllowedCheck(name, value, allowed) : r.kind # "ok"}
        \cup IF Passed \in AllowedCheck(name, value, allowed)
             THEN {IF Gate(value, accepted) = "ok" THEN Passed
                   ELSE IF Gate(value, accepted) = "InputError"
                        THEN InputError(name, value, NoAllowed)
                        ELSE Crash(Gate(value, accepted))}
             ELSE {}

\* no call of input_check
NoCheck == [name |-> "", value |-> NoneValue, accepted |-> NoTypes,
            allowed |-> NoAllowed]

-----------------------------------------------------------------------------
(* State *)

Idle == [pc |-> "idle", entry |-> "none", args |-> <<>>, log |-> <<>>,
         exc |-> "none", excPath |-> "", ret |-> None, inst |-> None,
         module |-> [src |-> "none", by |-> 0], copied |-> 0, fd |-> 0,
         orig |-> Closed, after |-> FALSE, lastError |-> "none",
         wrote |-> <<>>, path |-> "", chk |-> NoCheck, err |-> Passed]

ArgKinds == {"int", "str"}

AllPresent == [p \in Frags |-> "ok"]

\* load() reads the fragments only after a caught ImportError, and the
\* interpreter's loader and the stream's buffer only after _ffi() returned:
\* where the code never reads a part of the environment, one value stands for all
Init ==
    /\ prebuilt \in {"ok", "notfound", "broken", "crash"}
    /\ files \in [Frags -> {"ok", "missing", "denied"}]
    /\ runtime \in {"modern", "legacy"}
    /\ ~Catches(ImportRaises(prebuilt)) => files = AllPresent
    /\ cache = None
    /\ nextId = 0
    /\ warned = 0
    /\ fdt = [f \in Fds |-> CASE f = 0 -> Stdin [] f = 1 -> Tty
                              [] f = 2 -> Stderr [] OTHER -> Closed]
    /\ buf \in {<<>>, <<Pre>>}
    /\ (~Catches(ImportRaises(prebuilt)) \/ files # AllPresent)
          => (runtime = "modern" /\ buf = <<>>)
    /\ content = [x \in Targets |-> <<>>]
    /\ capfiles = {}
    /\ dirs = {}
    /\ artifacts = {}
    /\ firstOk = None
    /\ th = [t \in Threads |-> Idle]

\* thread t moves to p, having done ev
Goto(t, p, ev) == [th[t] EXCEPT !.pc = p, !.log = Append(@, ev)]

\* thread t's call ends with exception e
Raise(t, e, path, ev) ==
    [th[t] EXCEPT !.pc = "done", !.exc = e, !.excPath = path,
                  !.log = Append(@, ev)]

-----------------------------------------------------------------------------
(* CheckTokenMembership (security.py) and the entry of a call *)

\* a thread calls dist.load()
CallLoad(t) ==
    /\ th[t].pc = "idle"
    /\ th' = [th EXCEPT ![t] =
                [@ EXCEPT !.entry = "load", !.pc = "L254",
                          !.after = (firstOk # None)]]
    /\ UNCHANGED <<prebuilt, files, runtime, cache, nextId, warned, fdt, buf,
                   content, capfiles, dirs, artifacts, firstOk>>

\* a thread calls CheckTokenMembership(TokenHandle, SidToCheck, IsMember)
CallCheckTokenMembership(t) ==
    /\ th[t].pc = "idle"
    /\ \E a \in [1..3 -> ArgKinds] :
          th' = [th EXCEPT ![t] =
                   [@ EXCEPT !.entry = "ctm", !.args = a, !.pc = "ic1",
                             !.after = (firstOk # None)]]
    /\ UNCHANGED <<prebuilt, files, runtime, cache, nextId, warned, fdt, buf,
                   content, capfiles, dirs, artifacts, firstOk>>

\* a wrapper that validates its first argument only
AfterCheck_first(i) == "L254"

\* the statement after the i-th input_check (security.py, lines 47-50)
AfterCheck(i) == CASE i = 1 -> "ic2" [] i = 2 -> "ic3" [] OTHER -> "L254"

\* input_check("TokenHandle" | "SidToCheck" | "IsMember", ..., integer_types)
InputCheck(t) ==
    /\ th[t].pc \in {"ic1", "ic2", "ic3"}
    /\ LET i == CASE th[t].pc = "ic1" -> 1 [] th[t].pc = "ic2" -> 2 [] OTHER -> 3
       IN  th' = [th EXCEPT ![t] =
                    IF input_check(th[t].args[i]) = "ok"
                    THEN Goto(t, AfterCheck(i), "input_check")
                    ELSE Raise(t, "InputError", "", "input_check")]
    /\ UNCHANGED <<prebuilt, files, runtime, cache, nextId, warned, fdt, buf,
                   content, capfiles, dirs, artifacts, firstOk>>

\* library.CreateToolhelp32Snapshot(...) (security.py, lines 51-55)
NativeCall(t) ==
    /\ th[t].pc = "native"
    /\ \E e \in {"ok", "fail"} :
          th' = [th EXCEPT ![t] = [Goto(t, "errchk", "native") EXCEPT !.lastError = e]]
    /\ UNCHANGED <<prebuilt, files, runtime, cache, nextId, warned, fdt, buf,
                   content, capfiles, dirs, artifacts, firstOk>>

\* error_check("CheckTokenMembership"); return sid (security.py, lines 56-57)
ErrorCheck(t) ==
    /\ th[t].pc = "errchk"
    /\ th' = [th EXCEPT ![t] =
                IF error_check(th[t].lastError) = "ok"
                THEN Goto(t, "done", "error_check")
                ELSE Raise(t, "WindowsAPIError", "", "error_check")]
    /\ UNCHANGED <<prebuilt, files, runtime, cache, nextId, warned, fdt, buf,
                   content, capfiles, dirs, artifacts, firstOk>>

-----------------------------------------------------------------------------
(* load() (dist.py, lines 249-265) *)

\* where a thread goes when load() returns to it
AfterLoad(t) == IF th[t].entry = "ctm" THEN "native" ELSE "done"

\* if Module.cache is not None (line 254)
LoadCheckCache(t) ==
    /\ th[t].pc = "L254"
    /\ th' = [th EXCEPT ![t] =
                Goto(t, IF CacheHit(cache) THEN "L255" ELSE "L259", "load")]
    /\ UNCHANGED <<prebuilt, files, runtime, cache, nextId, warned, fdt, buf,
                   content, capfiles, dirs, artifacts, firstOk>>

\* return Module.cache (line 255)
LoadReturnCached(t) ==
    /\ th[t].pc = "L255"
    /\ th' = [th EXCEPT ![t] =
                [Goto(t, AfterLoad(t), "return_cached") EXCEPT !.ret = cache]]
    /\ firstOk' = IF firstOk = None THEN cache ELSE firstOk
    /\ UNCHANGED <<prebuilt, files, runtime, cache, nextId, warned, fdt, buf,
                   content, capfiles, dirs, artifacts>>

\* import _pywincffi, and the except clause (lines 258-262)
ImportPrebuilt(t) ==
    /\ th[t].pc = "L259"
    /\ LET e == ImportRaises(prebuilt)
       IN  th' = [th EXCEPT ![t] =
                    IF e = "none"
                    THEN [Goto(t, "L260", "import") EXCEPT !.module = PrebuiltModule]
                    ELSE IF Catches(e)
                         THEN Goto(t, "ffi", "import")
                         ELSE Raise(t, e, "", "import")]
    /\ UNCHANGED <<prebuilt, files, runtime, cache, nextId, warned, fdt, buf,
                   content, capfiles, dirs, artifacts, firstOk>>

\* the provenance tags of a Module (dist.py, lines 75-77)
Modes == {"prebuilt", "compiled"}

\* a thread constructs a Module itself: Module(module, mode)
CallModule(t) ==
    /\ th[t].pc = "idle"
    /\ \E m \in {PrebuiltModule, BuiltModule(t)}, mode \in Modes :
          th' = [th EXCEPT ![t] =
                   [@ EXCEPT !.entry = "Module", !.pc = "new", !.module = m,
                             !.args = <<mode>>]]
    /\ UNCHANGED <<prebuilt, files, runtime, cache, nextId, warned, fdt, buf,
                   content, capfiles, dirs, artifacts, firstOk>>

\* where a constructed Module goes: to the assignment of load(), or back to
\* the caller of Module(...)
AfterNew(pc) == IF pc = "L260" THEN "L260s" ELSE IF pc = "L263" THEN "L263s" ELSE "done"

\* a Module.__init__ that refuses a second instance
NewModule_strict(t) ==
    /\ th[t].pc \in {"L260", "L263", "new"}
    /\ UNCHANGED warned
    /\ nextId' = nextId + 1
    /\ th' = [th EXCEPT ![t] =
                IF cache # None
                THEN Raise(t, "RuntimeWarning", "", "Module")
                ELSE [Goto(t, AfterNew(th[t].pc), "Module")
                        EXCEPT !.inst = [id |-> nextId + 1, src |-> th[t].module.src,
                                         by |-> th[t].module.by,
                                         mode |-> IF th[t].pc = "new"
                                                  THEN th[t].args[1]
                                                  ELSE ModeAt(th[t].pc)]]]
    /\ UNCHANGED <<prebuilt, files, runtime, cache, fdt, buf, content, capfiles,
                   dirs, artifacts, firstOk>>

\* Module(module, mode): Module.__init__ (lines 73-81), called at 260 and 263
\* or by a caller of its own
NewModule(t) ==
    /\ th[t].pc \in {"L260", "L263", "new"}
    /\ warned' = IF cache # None THEN warned + 1 ELSE warned
    /\ nextId' = nextId + 1
    /\ th' = [th EXCEPT ![t] =
                [Goto(t, AfterNew(th[t].pc), "Module")
                   EXCEPT !.inst = [id |-> nextId + 1, src |-> th[t].module.src,
                                    by |-> th[t].module.by,
                                    mode |-> IF th[t].pc = "new"
                                             THEN th[t].args[1]
                                             ELSE ModeAt(th[t].pc)]]]
    /\ UNCHANGED <<prebuilt, files, runtime, cache, fdt, buf, content, capfiles,
                   dirs, artifacts, firstOk>>

\* Module.cache = ... (the assignments of lines 260 and 263)
SetCache(t) ==
    /\ th[t].pc \in {"L260s", "L263s"}
    /\ cache' = th[t].inst
    /\ th' = [th EXCEPT ![t] = Goto(t, "L265", "set_cache")]
    /\ UNCHANGED <<prebuilt, files, runtime, nextId, warned, fdt, buf, content,
                   capfiles, dirs, artifacts, firstOk>>

\* return Module.cache (line 265)
LoadReturn(t) ==
    /\ th[t].pc = "L265"
    /\ th' = [th EXCEPT ![t] =
                [Goto(t, AfterLoad(t), "return") EXCEPT !.ret = cache]]
    /\ firstOk' = IF firstOk = None THEN cache ELSE firstOk
    /\ UNCHANGED <<prebuilt, files, runtime, cache, nextId, warned, fdt, buf,
                   content, capfiles, dirs, artifacts>>

\* _ffi() (lines 190-205): the two _read calls, then the FFI object
Ffi(t) ==
    /\ th[t].pc = "ffi"
    /\ LET r == _ffi(files)
       IN  th' = [th EXCEPT ![t] =
                    IF r.kind = "ok"
                    THEN Goto(t, "mkdtemp", "_ffi")
                    ELSE Raise(t, r.kind, r.path, "_ffi")]
    /\ UNCHANGED <<prebuilt, files, runtime, cache, nextId, warned, fdt, buf,
                   content, capfiles, dirs, artifacts, firstOk>>

-----------------------------------------------------------------------------
(* _compile (lines 208-246) and _silence (lines 95-128) *)

\* tmpdir = tempfile.mkdtemp(prefix="pywincffi-") (line 225)
Mkdtemp(t) ==
    /\ th[t].pc = "mkdtemp"
    /\ dirs' = dirs \cup {t}
    /\ th' = [th EXCEPT ![t] = Goto(t, "sil_dup", "mkdtemp")]
    /\ UNCHANGED <<prebuilt, files, runtime, cache, nextId, warned, fdt, buf,
                   content, capfiles, artifacts, firstOk>>

\* silence_fd = silence.fileno(); os.fdopen(os.dup(silence_fd), "wb")
\* (lines 114-116)
SilDup(t) ==
    /\ th[t].pc = "sil_dup"
    /\ LET c == LowestFree(fdt)
       IN  /\ fdt' = [fdt EXCEPT ![c] = fdt[StdoutFd]]
           /\ th' = [th EXCEPT ![t] =
                       [Goto(t, "sil_flush", "dup") EXCEPT !.copied = c,
                                                         !.orig = fdt[StdoutFd]]]
    /\ UNCHANGED <<prebuilt, files, runtime, cache, nextId, warned, buf, content,
                   capfiles, dirs, artifacts, firstOk>>

\* a _silence that redirects without flushing first
SilFlush_skip(t) ==
    /\ th[t].pc = "sil_flush"
    /\ th' = [th EXCEPT ![t] = Goto(t, "sil_mkstemp", "flush")]
    /\ UNCHANGED <<prebuilt, files, runtime, cache, nextId, warned, fdt, buf,
                   content, capfiles, dirs, artifacts, firstOk>>

\* silence.flush() (line 117)
SilFlush(t) ==
    /\ th[t].pc = "sil_flush"
    /\ content' = Flushed(content, fdt, buf)
    /\ buf' = <<>>
    /\ th' = [th EXCEPT ![t] = Goto(t, "sil_mkstemp", "flush")]
    /\ UNCHANGED <<prebuilt, files, runtime, cache, nextId, warned, fdt, capfiles,
                   dirs, artifacts, firstOk>>

\* fd, path = tempfile.mkstemp() (line 119); when it raises, the with
\* statement of line 116 closes the duplicate and the error leaves _silence
SilMkstemp(t) ==
    /\ th[t].pc = "sil_mkstemp"
    /\ \/ LET f == LowestFree(fdt)
          IN  /\ fdt' = [fdt EXCEPT ![f] = Cap(t)]
              /\ capfiles' = capfiles \cup {t}
              /\ content' = [content EXCEPT ![Cap(t)] = <<>>]
              /\ th' = [th EXCEPT ![t] =
                          [Goto(t, "sil_dup2", "mkstemp") EXCEPT !.fd = f]]
       \/ /\ th' = [th EXCEPT ![t] =
                      [Goto(t, "sil_close_copied", "mkstemp_failed")
                         EXCEPT !.exc = "OSError"]]
          /\ UNCHANGED <<fdt, capfiles, content>>
    /\ UNCHANGED <<prebuilt, files, runtime, cache, nextId, warned, buf, dirs,
                   artifacts, firstOk>>

\* os.dup2(fd, silence_fd) (line 120); it comes before the try statement, so
\* when it raises only the with statement of line 116 cleans up
SilDup2(t) ==
    /\ th[t].pc = "sil_dup2"
    /\ \/ /\ fdt' = [fdt EXCEPT ![StdoutFd] = fdt[th[t].fd]]
          /\ th' = [th EXCEPT ![t] = Goto(t, "compile", "dup2")]
       \/ /\ th' = [th EXCEPT ![t] =
                      [Goto(t, "sil_close_copied", "dup2_failed")
                         EXCEPT !.exc = "OSError"]]
          /\ UNCHANGED fdt
    /\ UNCHANGED <<prebuilt, files, runtime, cache, nextId, warned, buf, content,
                   capfiles, dirs, artifacts, firstOk>>

\* pyd_path = ffi.compile(tmpdir=tmpdir) (line 231): the toolchain writes to
\* descriptor 1, the build driver prints through sys.stdout; it returns the
\* artifact or raises
FfiCompile(t) ==
    /\ th[t].pc = "compile"
    /\ content' = [content EXCEPT ![fdt[StdoutFd]] = Append(@, Raw(t))]
    /\ buf' = Append(buf, Buffered(t))
    /\ \/ /\ artifacts' = artifacts \cup {t}
          /\ th' = [th EXCEPT ![t] =
                      [Goto(t, "sil_fin_flush", "compile")
                         EXCEPT !.wrote = <<Raw(t), Buffered(t)>>,
                                !.path = "pyd"]]
       \/ /\ UNCHANGED artifacts
          /\ th' = [th EXCEPT ![t] =
                      [Goto(t, "replay", "compile")
                         EXCEPT !.wrote = <<Raw(t), Buffered(t)>>]]
    /\ UNCHANGED <<prebuilt, files, runtime, cache, nextId, warned, fdt, capfiles,
                   dirs, firstOk>>

\* an except clause that re-raises without replaying the capture file
Replay_silent(t) ==
    /\ th[t].pc = "replay"
    /\ th' = [th EXCEPT ![t] =
                [Goto(t, "sil_fin_flush", "replay") EXCEPT !.exc = "BuildFailure"]]
    /\ UNCHANGED <<prebuilt, files, runtime, cache, nextId, warned, fdt, buf,
                   content, capfiles, dirs, artifacts, firstOk>>

\* except Exception: print(open(out_path).read(), file=sys.stderr); raise
\* (lines 233-236)
Replay(t) ==
    /\ th[t].pc = "replay"
    /\ content' = [content EXCEPT ![fdt[2]] = @ \o content[Cap(t)]]
    /\ th' = [th EXCEPT ![t] =
                [Goto(t, "sil_fin_flush", "replay") EXCEPT !.exc = "BuildFailure"]]
    /\ UNCHANGED <<prebuilt, files, runtime, cache, nextId, warned, fdt, buf,
                   capfiles, dirs, artifacts, firstOk>>

\* a _silence that restores the descriptor without flushing the stream first
SilFinFlush_skip(t) ==
    /\ th[t].pc = "sil_fin_flush"
    /\ th' = [th EXCEPT ![t] = Goto(t, "sil_fin_restore", "flush2")]
    /\ UNCHANGED <<prebuilt, files, runtime, cache, nextId, warned, fdt, buf,
                   content, capfiles, dirs, artifacts, firstOk>>

\* finally: silence.flush() (line 125)
SilFinFlush(t) ==
    /\ th[t].pc = "sil_fin_flush"
    /\ content' = Flushed(content, fdt, buf)
    /\ buf' = <<>>
    /\ th' = [th EXCEPT ![t] = Goto(t, "sil_fin_restore", "flush2")]
    /\ UNCHANGED <<prebuilt, files, runtime, cache, nextId, warned, fdt, capfiles,
                   dirs, artifacts, firstOk>>

\* os.dup2(copied.fileno(), silence_fd) (line 126)
SilFinRestore(t) ==
    /\ th[t].pc = "sil_fin_restore"
    /\ fdt' = [fdt EXCEPT ![StdoutFd] = fdt[th[t].copied]]
    /\ th' = [th EXCEPT ![t] = Goto(t, "sil_fin_close", "restore")]
    /\ UNCHANGED <<prebuilt, files, runtime, cache, nextId, warned, buf, content,
                   capfiles, dirs, artifacts, firstOk>>

\* os.fsync(fd); os.close(fd) (lines 127-128)
SilFinClose(t) ==
    /\ th[t].pc = "sil_fin_close"
    /\ fdt' = [fdt EXCEPT ![th[t].fd] = Closed]
    /\ th' = [th EXCEPT ![t] = Goto(t, "sil_close_copied", "close_fd")]
    /\ UNCHANGED <<prebuilt, files, runtime, cache, nextId, warned, buf, content,
                   capfiles, dirs, artifacts, firstOk>>

\* a _silence that swallows the exception of its protected region
SilCloseCopied_swallow(t) ==
    /\ th[t].pc = "sil_close_copied"
    /\ fdt' = [fdt EXCEPT ![th[t].copied] = Closed]
    /\ th' = [th EXCEPT ![t] = Goto(t, "rm_out", "close_copied")]
    /\ UNCHANGED <<prebuilt, files, runtime, cache, nextId, warned, buf, content,
                   capfiles, dirs, artifacts, firstOk>>

\* the end of the with statement of line 116 closes the duplicate; a pending
\* exception then leaves _silence, _compile and load()
SilCloseCopied(t) ==
    /\ th[t].pc = "sil_close_copied"
    /\ fdt' = [fdt EXCEPT ![th[t].copied] = Closed]
    /\ th' = [th EXCEPT ![t] =
                Goto(t, IF th[t].exc # "none" THEN "done" ELSE "rm_out",
                     "close_copied")]
    /\ UNCHANGED <<prebuilt, files, runtime, cache, nextId, warned, buf, content,
                   capfiles, dirs, artifacts, firstOk>>

\* a _compile that discards its temp directory before importing the artifact
RemoveOut_rmtree_first(t) ==
    /\ th[t].pc = "rm_out"
    /\ capfiles' = capfiles \ {t}
    /\ dirs' = dirs \ {t}
    /\ artifacts' = artifacts \ {t}
    /\ th' = [th EXCEPT ![t] = Goto(t, "import_path", "remove_out")]
    /\ UNCHANGED <<prebuilt, files, runtime, cache, nextId, warned, fdt, buf,
                   content, firstOk>>

\* os.remove(out_path) (line 238)
RemoveOut(t) ==
    /\ th[t].pc = "rm_out"
    /\ \/ /\ capfiles' = capfiles \ {t}
          /\ th' = [th EXCEPT ![t] = Goto(t, "import_path", "remove_out")]
       \/ /\ UNCHANGED capfiles
          /\ th' = [th EXCEPT ![t] = Raise(t, "OSError", "", "remove_out_failed")]
    /\ UNCHANGED <<prebuilt, files, runtime, cache, nextId, warned, fdt, buf,
                   content, dirs, artifacts, firstOk>>

\* what a path given to _import_path may be
PathKinds == {"file", "missing", "dir"}

\* a thread calls _import_path(path) itself, on a path named after what it is
CallImportPath(t) ==
    /\ th[t].pc = "idle"
    /\ \E k \in PathKinds :
          th' = [th EXCEPT ![t] =
                   [@ EXCEPT !.entry = "import_path", !.path = k,
                             !.pc = "import_path"]]
    /\ UNCHANGED <<prebuilt, files, runtime, cache, nextId, warned, fdt, buf,
                   content, capfiles, dirs, artifacts, firstOk>>

\* isfile(path) (line 152); _compile passes the artifact of its temp directory
isfile(t) ==
    IF th[t].entry = "import_path" THEN th[t].path = "file" ELSE t \in artifacts

\* where _import_path returns to
AfterImportPath(t) == IF th[t].entry = "import_path" THEN "done" ELSE "rmtree"

\* module = _import_path(pyd_path) (line 239; _import_path, lines 131-164)
ImportPath(t) ==
    /\ th[t].pc = "import_path"
    /\ IF ~isfile(t)
       THEN th' = [th EXCEPT ![t] =
                     Raise(t, "ResourceNotFoundError", th[t].path, "isfile")]
       ELSE \/ th' = [th EXCEPT ![t] =
                        [Goto(t, AfterImportPath(t), Loader(runtime))
                           EXCEPT !.module = BuiltModule(t)]]
            \/ th' = [th EXCEPT ![t] =
                        Raise(t, "LoadFailure", "", Loader(runtime))]
    /\ UNCHANGED <<prebuilt, files, runtime, cache, nextId, warned, fdt, buf,
                   content, capfiles, dirs, artifacts, firstOk>>

\* shutil.rmtree(tmpdir, ignore_errors=True) (line 244)
Rmtree(t) ==
    /\ th[t].pc = "rmtree"
    /\ \/ /\ dirs' = dirs \ {t}
          /\ artifacts' = artifacts \ {t}
       \/ UNCHANGED <<dirs, artifacts>>
    /\ th' = [th EXCEPT ![t] = Goto(t, "L263", "rmtree")]
    /\ UNCHANGED <<prebuilt, files, runtime, cache, nextId, warned, fdt, buf,
                   content, capfiles, firstOk>>

-----------------------------------------------------------------------------
(* Specifications *)

\* a statement of load() or of what it calls
LoadStep(t) ==
    \/ LoadCheckCache(t)
    \/ LoadReturnCached(t)
    \/ ImportPrebuilt(t)
    \/ NewModule(t)
    \/ SetCache(t)
    \/ LoadReturn(t)
    \/ Ffi(t)
    \/ Mkdtemp(t)
    \/ SilDup(t)
    \/ SilFlush(t)
    \/ SilMkstemp(t)
    \/ SilDup2(t)
    \/ FfiCompile(t)
    \/ Replay(t)
    \/ SilFinFlush(t)
    \/ SilFinRestore(t)
    \/ SilFinClose(t)
    \/ SilCloseCopied(t)
    \/ RemoveOut(t)
    \/ ImportPath(t)
    \/ Rmtree(t)

\* a statement of CheckTokenMembership
WrapperStep(t) ==
    \/ InputCheck(t)
    \/ NativeCall(t)
    \/ ErrorCheck(t)

\* no call is in flight in another thread; the threads being alike, the i-th
\* call of the process is thread i's
Exclusive(t) ==
    /\ \A u \in Threads : u < t => th[u].pc = "done"
    /\ \A u \in Threads : u > t => th[u].pc = "idle"

\* a call that begins when no other call is in flight
SeqCallLoad(t) == Exclusive(t) /\ CallLoad(t)

SeqCallCheckTokenMembership(t) == Exclusive(t) /\ CallCheckTokenMembership(t)

\* the calls of the process follow one another
Next ==
    \E t \in Threads :
        \/ SeqCallLoad(t)
        \/ SeqCallCheckTokenMembership(t)
        \/ WrapperStep(t)
        \/ LoadStep(t)

Spec == Init /\ [][Next]_vars

\* the threads call load() and run interleaved, statement by statement
NextThreads == \E t \in Threads : CallLoad(t) \/ LoadStep(t)

SpecThreads == Init /\ [][NextThreads]_vars

SeqCallImportPath(t) == Exclusive(t) /\ CallImportPath(t)

\* the calls are calls of _import_path, one after the other
NextImportPath == \E t \in Threads : SeqCallImportPath(t) \/ ImportPath(t)

SpecImportPath == Init /\ [][NextImportPath]_vars

SeqCallModule(t) == Exclusive(t) /\ CallModule(t)

\* Module.__init__ reads only Module.cache: one environment per prebuilt outcome
InitModule == Init /\ files = AllPresent /\ runtime = "modern" /\ buf = <<>>

\* the calls are calls of load() and constructions of a Module, one after the
\* other
NextModule ==
    \E t \in Threads :
        \/ SeqCallLoad(t)
        \/ SeqCallModule(t)
        \/ LoadStep(t)

SpecModule == InitModule /\ [][NextModule]_vars

\* the first thread calls input_check(name, value, accepted, allowed)
CallInputCheck(t) ==
    /\ th[t].pc = "idle"
    /\ \A u \in Threads : t <= u
    /\ \E n \in ArgNames, v \in Values, a \in Accepted, w \in AllowedValues :
          th' = [th EXCEPT ![t] =
                   [@ EXCEPT !.entry = "input_check", !.pc = "check",
                             !.chk = [name |-> n, value |-> v, accepted |-> a,
                                      allowed |-> w]]]
    /\ UNCHANGED <<prebuilt, files, runtime, cache, nextId, warned, fdt, buf,
                   content, capfiles, dirs, artifacts, firstOk>>

\* input_check returns or raises
RunInputCheck(t) ==
    /\ th[t].pc = "check"
    /\ \E r \in input_check_outcomes(th[t].chk.name, th[t].chk.value,
                                      th[t].chk.accepted, th[t].chk.allowed) :
          th' = [th EXCEPT ![t] =
                   [Goto(t, "done", "input_check")
                      EXCEPT !.err = r,
                             !.exc = IF r.kind = "ok" THEN "none" ELSE r.kind]]
    /\ UNCHANGED <<prebuilt, files, runtime, cache, nextId, warned, fdt, buf,
                   content, capfiles, dirs, artifacts, firstOk>>

\* input_check reads nothing of the process
InitChecks == Init /\ prebuilt = "ok"

NextChecks == \E t \in Threads : CallInputCheck(t) \/ RunInputCheck(t)

SpecChecks == InitChecks /\ [][NextChecks]_vars

-----------------------------------------------------------------------------
(* What a thread has done *)

\* load() returned to thread t
Returned(t) == Has(th[t].log, "return_cached") \/ Has(th[t].log, "return")

\* thread t ran a loading mechanism of _import_path
Loaded(t) == Count(th[t].log, "ExtensionFileLoader") + Count(th[t].log, "imp")

\* thread t did nothing of the cold path
NoColdWork(t) ==
    /\ ~Has(th[t].log, "import")
    /\ ~Has(th[t].log, "_ffi")
    /\ ~Has(th[t].log, "mkdtemp")
    /\ ~Has(th[t].log, "compile")
    /\ Loaded(t) = 0
    /\ ~Has(th[t].log, "Module")

-----------------------------------------------------------------------------
(* Claims *)

\* C1: in a sequence of load() calls, every call that begins after a call
\* has returned does no prebuilt import, no definition read, no temp-directory
\* creation and no compilation, creates nothing on disk, and returns the very
\* Module (same instance, handle and provenance) the first call returned.
C1_IdempotentAcquisition ==
    \A t \in Threads :
        (th[t].after /\ Has(th[t].log, "load")) =>
            /\ NoColdWork(t)
            /\ t \notin dirs /\ t \notin capfiles /\ t \notin artifacts
            /\ th[t].pc # "L259"
            /\ Returned(t) => (th[t].ret = firstOk /\ th[t].ret # None)

C1_Witness ==
    \E t \in Threads :
        /\ th[t].after
        /\ Has(th[t].log, "return_cached")
        /\ th[t].ret = firstOk
        /\ firstOk.mode = "compiled"

\* C2: a cold load() whose prebuilt import succeeds assembles and compiles
\* nothing and caches a Module tagged "prebuilt"; one whose import fails as
\* not-found assembles, compiles and loads exactly once each and caches a Module
\* tagged "compiled"; the tag of the cached Module always names the path that
\* produced its module.
C2_FallbackCorrectness ==
    /\ \A t \in Threads :
          Has(th[t].log, "set_cache") =>
              /\ prebuilt = "ok" =>
                    /\ ~Has(th[t].log, "_ffi")
                    /\ ~Has(th[t].log, "mkdtemp")
                    /\ ~Has(th[t].log, "compile")
                    /\ Loaded(t) = 0
                    /\ th[t].inst.mode = "prebuilt"
              /\ prebuilt = "notfound" =>
                    /\ Count(th[t].log, "_ffi") = 1
                    /\ Count(th[t].log, "compile") = 1
                    /\ Loaded(t) = 1
                    /\ th[t].inst.mode = "compiled"
              /\ Count(th[t].log, "import") = 1
    /\ cache # None =>
          /\ cache.mode = "prebuilt" <=> cache.src = "site"
          /\ cache.mode = "compiled" <=> cache.src = "pyd"
          /\ cache.mode \in {"prebuilt", "compiled"}

C2_Witness ==
    /\ prebuilt = "notfound"
    /\ cache.mode = "compiled"
    /\ \E t \in Threads : Has(th[t].log, "set_cache") /\ cache = th[t].inst

\* thread t is between the first and the last statement of the
\* compiled-on-demand path
InColdPath(t) ==
    th[t].pc \in {"ffi", "mkdtemp", "sil_dup", "sil_flush", "sil_mkstemp",
                  "sil_dup2", "compile", "replay", "sil_fin_flush",
                  "sil_fin_restore", "sil_fin_close", "sil_close_copied",
                  "rm_out", "import_path", "rmtree", "L263", "L263s"}

\* C3: when threads call load() concurrently with the cache empty and no
\* prebuilt module, and no call fails, the compile/load sequence is serialized:
\* at most one thread is in it at a time, and at most one temp directory is
\* created and ffi.compile invoked at most once in the process.
C3_SingleCompilation ==
    (prebuilt = "notfound" /\ \A t \in Threads : th[t].exc = "none") =>
        /\ Cardinality({t \in Threads : InColdPath(t)}) <= 1
        /\ Cardinality({t \in Threads : Has(th[t].log, "mkdtemp")}) <= 1
        /\ Cardinality({t \in Threads : Has(th[t].log, "compile")}) <= 1

\* C4: once Module.cache is not None it is never assigned another Module, and
\* any two load() calls that return return the same instance.
C4_CacheNeverReassigned ==
    [][/\ cache # None => cache' = cache
       /\ \A t, u \in Threads :
             (Returned(t)' /\ Returned(u)') => th'[t].ret = th'[u].ret]_vars

\* the errors a step of the fallback path raises
FallbackErrors == {"ResourceNotFoundError", "OSError", "BuildFailure", "LoadFailure"}

\* C5: when a step of the fallback path fails in a cold load(), the call ends
\* with that failure: nothing was run a second time, no other way to a module
\* was tried, the call constructed no Module and assigned no cache, and the
\* cache is empty when the failure reaches the caller.  The cache never holds a
\* Module whose module was not loaded.
C5_FallbackFailureIsFatal ==
    /\ \A t \in Threads :
          (th[t].pc = "done" /\ th[t].exc \in FallbackErrors) =>
              /\ Count(th[t].log, "import") = 1
              /\ Count(th[t].log, "_ffi") = 1
              /\ Count(th[t].log, "mkdtemp") <= 1
              /\ Count(th[t].log, "compile") <= 1
              /\ Loaded(t) <= 1
              /\ ~Has(th[t].log, "Module")
              /\ ~Has(th[t].log, "set_cache")
              /\ ~Returned(t)
              /\ ~Has(th[t].log, "native")
              /\ Has(th[t].log, "replay") => th[t].exc = "BuildFailure"
              /\ th[t].exc = "LoadFailure" => Loaded(t) = 1
              /\ (\A u \in Threads : u > t => th[u].pc = "idle") => cache = None
    /\ cache # None =>
          \/ cache.src = "site" /\ prebuilt = "ok"
          \/ /\ cache.src = "pyd"
             /\ th[cache.by].exc \notin FallbackErrors
             /\ th[cache.by].module = BuiltModule(cache.by)
             /\ Loaded(cache.by) = 1

C5_Witness ==
    \E t \in Threads :
        /\ th[t].pc = "done"
        /\ th[t].exc = "BuildFailure"
        /\ Has(th[t].log, "replay")
        /\ cache = None

C7_ValidateCallTranslate ==
    \A t \in Threads :
        th[t].entry = "ctm" =>
            /\ Has(th[t].log, "native") =>
                  /\ Count(th[t].log, "input_check") = 3
                  /\ \A i \in 1..3 : th[t].args[i] = "int"
                  /\ Before(th[t].log, "input_check", "load")
                  /\ Before(th[t].log, "load", "native")
                  /\ Count(th[t].log, "native") = 1
            /\ (\E i \in 1..3 : th[t].args[i] # "int") =>
                  /\ ~Has(th[t].log, "native")
                  /\ ~Has(th[t].log, "load")
                  /\ NoColdWork(t)
                  /\ th[t].exc \in {"none", "InputError"}
                  /\ th[t].pc \in {"ic1", "ic2", "ic3", "done"}
            /\ th[t].exc = "InputError" =>
                  (th[t].pc = "done" /\ ~Has(th[t].log, "native"))
            /\ \A i \in 1..Len(th[t].log) :
                  /\ th[t].log[i] = "error_check" => (i > 1 /\ th[t].log[i - 1] = "native")
                  /\ (th[t].log[i] = "native" /\ i < Len(th[t].log)) =>
                        th[t].log[i + 1] = "error_check"
            /\ th[t].pc = "done" =>
                  (Has(th[t].log, "native") <=> Has(th[t].log, "error_check"))

C7_Witness ==
    \E t, u \in Threads :
        /\ th[t].entry = "ctm" /\ th[t].pc = "done"
        /\ Has(th[t].log, "error_check")
        /\ th[u].entry = "ctm" /\ th[u].exc = "InputError"
        /\ th[u].args[1] = "int" /\ th[u].args[2] = "int"

\* descriptor 1 is redirected by thread t's _silence
Redirected(t) ==
    th[t].pc \in {"compile", "replay", "sil_fin_flush", "sil_fin_restore"}

\* thread t entered the protected region of _silence and left _silence
LeftRegion(t) == Has(th[t].log, "dup2") /\ Has(th[t].log, "close_copied")

\* C8: after the protected region of _silence has been left, normally or by
\* an exception, the stream's descriptor refers to what it referred to at
\* entry, and the capture file, as long as it exists, holds exactly what was
\* written to the stream during the region, nothing of what was buffered
\* before.
C8_SilenceRestores ==
    \A t \in Threads :
        LeftRegion(t) =>
            /\ (\A u \in Threads : ~Redirected(u)) =>
                  (fdt[StdoutFd] = th[t].orig /\ th[t].orig = Tty)
            /\ t \in capfiles =>
                  (content[Cap(t)] = th[t].wrote /\ th[t].wrote # <<>>)
            /\ \A i \in 1..Len(content[Cap(t)]) : content[Cap(t)][i] # Pre

C8_Witness ==
    \E t \in Threads :
        /\ LeftRegion(t)
        /\ th[t].pc = "done" /\ th[t].exc = "BuildFailure"
        /\ fdt[StdoutFd] = Tty
        /\ content[Tty] = <<Pre>>
        /\ content[Cap(t)] = <<Raw(t), Buffered(t)>>

\* C9: when ffi.compile raises, or _import_path raises after a successful
\* compile, the temp directory _compile made no longer exists when the error
\* reaches the caller of load().
C9_TempDirRemovedOnFailure ==
    \A t \in Threads :
        (th[t].pc = "done" /\ th[t].exc \in {"BuildFailure", "LoadFailure"}) =>
            (t \notin dirs /\ t \notin artifacts)

\* the fragments in the order _ffi() reads them
AllFragments == HEADER_FILES \o SOURCE_FILES

\* the first fragment that cannot be opened
FirstBad(fs) ==
    LET bad == {i \in 1..Len(AllFragments) : fs[AllFragments[i]] # "ok"}
    IN  AllFragments[CHOOSE i \in bad : \A j \in bad : i <= j]

\* C10: _read returns the contents of all its fragments, in order, or raises
\* and returns nothing; the first fragment that cannot be opened decides: when
\* it does not exist the error is ResourceNotFoundError naming it, when it
\* fails otherwise the error is the OSError as raised; and _ffi() and load()
\* then fail before a temp directory is created or the compiler invoked.
C10_ReadAllOrRaise ==
    /\ LET r == _read(HEADER_FILES, files)
       IN  /\ r.kind = "ok" <=> \A i \in 1..Len(HEADER_FILES) : files[HEADER_FILES[i]] = "ok"
           /\ r.kind = "ok" => (r.blob = HEADER_FILES /\ r.path = "")
           /\ r.kind # "ok" => r.blob = <<>>
    /\ \A t \in Threads :
          Has(th[t].log, "_ffi") =>
              IF files = AllPresent
              THEN th[t].excPath \notin Frags
              ELSE /\ th[t].pc = "done"
                   /\ th[t].excPath = FirstBad(files)
                   /\ files[FirstBad(files)] = "missing" =>
                         th[t].exc = "ResourceNotFoundError"
                   /\ files[FirstBad(files)] = "denied" => th[t].exc = "OSError"
                   /\ ~Has(th[t].log, "mkdtemp")
                   /\ ~Has(th[t].log, "compile")
                   /\ Loaded(t) = 0
                   /\ t \notin dirs
                   /\ ~Returned(t)
                   /\ cache = None

C10_Witness ==
    \E t \in Threads :
        /\ th[t].pc = "done"
        /\ th[t].exc = "ResourceNotFoundError"
        /\ th[t].excPath = "structs.h"
        /\ files["functions.h"] = "missing"
        /\ files["main.c"] = "denied"

\* thread t has run _import_path
RanImportPath(t) == Has(th[t].log, "isfile") \/ Loaded(t) > 0

\* C11: _import_path on a path that is no existing regular file raises
\* ResourceNotFoundError naming the path and runs no loading mechanism; on an
\* existing file it runs ExtensionFileLoader when the interpreter has it and
\* imp.load_dynamic only otherwise, once, and a failure of the mechanism
\* reaches the caller as it is, no other mechanism being tried.
C11_ImportPath ==
    \A t \in Threads :
        RanImportPath(t) =>
            /\ Has(th[t].log, "isfile") =>
                  /\ ~isfile(t)
                  /\ th[t].pc = "done"
                  /\ th[t].exc = "ResourceNotFoundError"
                  /\ th[t].excPath = th[t].path
                  /\ Loaded(t) = 0
            /\ (th[t].entry = "import_path" /\ th[t].path # "file") =>
                  Has(th[t].log, "isfile")
            /\ Loaded(t) > 0 =>
                  /\ Loaded(t) = 1
                  /\ runtime = "modern" =>
                        (Has(th[t].log, "ExtensionFileLoader") /\ ~Has(th[t].log, "imp"))
                  /\ runtime = "legacy" =>
                        (Has(th[t].log, "imp") /\ ~Has(th[t].log, "ExtensionFileLoader"))
                  /\ th[t].exc = "LoadFailure" =>
                        (th[t].pc = "done" /\ th[t].module # BuiltModule(t))
                  /\ th[t].entry = "import_path" =>
                        /\ th[t].pc = "done"
                        /\ th[t].exc \in {"none", "LoadFailure"}
                        /\ th[t].exc = "none" => th[t].module = BuiltModule(t)

C11_Witness ==
    \E t, u \in Threads :
        /\ th[t].entry = "import_path" /\ th[t].path = "missing"
        /\ th[t].exc = "ResourceNotFoundError" /\ th[t].excPath = "missing"
        /\ th[u].entry = "import_path" /\ th[u].path = "file"
        /\ th[u].exc = "LoadFailure" /\ Has(th[u].log, "imp")

\* thread t's call of input_check has ended
Checked(t) == th[t].entry = "input_check" /\ th[t].pc = "done"

\* C12: input_check with a non-empty sequence allowed_values (and no
\* allowed_types) returns silently iff the value is a member of it, and
\* otherwise raises InputError whose allowed_values is the sequence given and
\* whose message names the argument, the allowed values and the value
\* received; with an allowed_values that is no sequence it raises
\* AssertionError, never InputError.
C12_AllowedValues ==
    \A t \in Threads :
        Checked(t) =>
            LET c == th[t].chk
                r == th[t].err
            IN  /\ (c.allowed.kind = "tuple" /\ c.allowed.items # <<>>) =>
                      /\ r.kind \in {"ok", "InputError"}
                      /\ r.kind = "ok" => Member(c.value, c.allowed.items)
                      /\ (~c.accepted.given /\ Member(c.value, c.allowed.items)) =>
                            r = Passed
                      /\ ~Member(c.value, c.allowed.items) =>
                            /\ r.kind = "InputError"
                            /\ r.allowed_values = c.allowed
                            /\ r.message = [name |-> c.name,
                                            expected |-> c.allowed.items,
                                            got |-> c.value]
                /\ c.allowed = NotASequence =>
                      (r.kind = "AssertionError" /\ th[t].exc = "AssertionError")

C12_Witness ==
    \E t \in Threads :
        /\ Checked(t)
        /\ th[t].chk.name = "foo"
        /\ th[t].chk.value = IntOne
        /\ th[t].chk.allowed = [kind |-> "tuple", items |-> <<IntTwo>>]
        /\ th[t].err.kind = "InputError"
        /\ th[t].err.allowed_values.items = <<IntTwo>>

\* C13: with allowed_types given (and no allowed_values) input_check returns
\* silently iff the value satisfies one of the accepted types or categories,
\* and raises InputError otherwise, also when the category cannot be resolved
\* on the value (None against Enums.UTF8, a path string against
\* Enums.PYFILE, an unknown category): never another exception.
C13_TypeGate ==
    \A t \in Threads :
        (Checked(t) /\ th[t].chk.accepted.given /\ th[t].chk.allowed = NoAllowed) =>
            LET c == th[t].chk
                r == th[t].err
                fits == \/ c.value.ty \in c.accepted.cats
                        \/ "Enums.UTF8" \in c.accepted.cats /\ c.value.ty = "str"
                        \/ "Enums.PYFILE" \in c.accepted.cats /\ c.value.ty = "file"
            IN  /\ r.kind \in {"ok", "InputError"}
                /\ r.kind = "ok" <=> fits
                /\ r.kind = "InputError" =>
                      (r.message.name = c.name /\ r.message.got = c.value)

C13_Witness ==
    \E t \in Threads :
        /\ Checked(t)
        /\ th[t].chk.value = NoneValue
        /\ th[t].chk.accepted.cats = {"Enums.UTF8"}
        /\ th[t].chk.allowed = NoAllowed
        /\ th[t].err.kind = "InputError"

C15_CaptureFileRemoved ==
    \A t \in Threads :
        (/\ th[t].pc \in {"L263", "L265", "done"}
         /\ Has(th[t].log, "compile")
         /\ ~Has(th[t].log, "remove_out_failed")) =>
            t \notin capfiles

\* C16: on a successful build _compile restores stdout, then deletes the
\* capture file, then imports the artifact, and only then removes the temp
\* directory; the directory is never gone before the artifact is loaded.
C16_SuccessOrder ==
    \A t \in Threads :
        /\ (th[t].entry # "import_path" /\ th[t].pc = "import_path") =>
              /\ fdt[StdoutFd] = th[t].orig
              /\ t \notin capfiles
              /\ t \in dirs /\ t \in artifacts
        /\ Has(th[t].log, "rmtree") =>
              /\ Count(th[t].log, "restore") = 1
              /\ Count(th[t].log, "remove_out") = 1
              /\ Count(th[t].log, Loader(runtime)) = 1
              /\ Count(th[t].log, "rmtree") = 1
              /\ Before(th[t].log, "compile", "restore")
              /\ Before(th[t].log, "restore", "remove_out")
              /\ Before(th[t].log, "remove_out", Loader(runtime))
              /\ Before(th[t].log, Loader(runtime), "rmtree")
              /\ th[t].module = BuiltModule(t)
        /\ (Has(th[t].log, "mkdtemp") /\ t \notin dirs) =>
              /\ Has(th[t].log, "rmtree")
              /\ th[t].module = BuiltModule(t)

C16_Witness ==
    \E t \in Threads :
        /\ th[t].pc = "done"
        /\ th[t].exc = "none"
        /\ Has(th[t].log, "rmtree")
        /\ t \notin dirs
        /\ t \notin capfiles
        /\ th[t].ret.mode = "compiled"

\* C17: when, after a successful build, removing the capture file or removing
\* the temp directory fails, load() still returns the compiled module and the
\* cache is populated.
C17_CleanupFailureNotFatal ==
    \A t \in Threads :
        (/\ th[t].pc = "done"
         /\ th[t].entry = "load"
         /\ \/ Has(th[t].log, "remove_out_failed")
            \/ (Has(th[t].log, "rmtree") /\ t \in dirs)) =>
            /\ th[t].exc = "none"
            /\ th[t].ret.mode = "compiled"
            /\ cache # None

\* C18: _silence duplicates the original descriptor and flushes the stream
\* before it redirects, so what was buffered before entry reaches the original
\* target and never the capture file; on exit it flushes before it restores,
\* so what was buffered during the region reaches the capture file and never
\* the original target; and it restores from the duplicate while the duplicate
\* is still open, closing it afterwards.
C18_SilenceOrdering ==
    \A t \in Threads :
        /\ Has(th[t].log, "dup2") =>
              /\ Count(th[t].log, "dup") = 1 /\ Count(th[t].log, "flush") = 1
              /\ Before(th[t].log, "dup", "dup2")
              /\ Before(th[t].log, "flush", "dup2")
        /\ th[t].pc \in {"sil_mkstemp", "sil_dup2"} =>
              /\ buf = <<>>
              /\ fdt[th[t].copied] = th[t].orig /\ th[t].orig # Closed
        /\ Has(th[t].log, "restore") =>
              /\ Count(th[t].log, "flush2") = 1
              /\ Before(th[t].log, "dup2", "flush2")
              /\ Before(th[t].log, "flush2", "restore")
        /\ th[t].pc = "sil_fin_restore" =>
              /\ buf = <<>>
              /\ Count(content[Cap(t)], Buffered(t)) = 1
              /\ fdt[StdoutFd] = Cap(t)
              /\ fdt[th[t].copied] = th[t].orig /\ th[t].orig # Closed
        /\ Has(th[t].log, "close_copied") =>
              /\ Before(th[t].log, "restore", "close_copied")
              /\ Has(th[t].log, "dup2") => Has(th[t].log, "restore")
        /\ \A i \in 1..Len(content[Cap(t)]) : content[Cap(t)][i] # Pre
        /\ \A i \in 1..Len(content[Tty]) : content[Tty][i] # Buffered(t)
        /\ \A i \in 1..Len(buf) : Has(th[t].log, "flush") => buf[i] # Pre

C18_Witness ==
    \E t \in Threads :
        /\ th[t].pc = "rm_out"
        /\ th[t].exc = "none"
        /\ fdt[StdoutFd] = Tty
        /\ fdt[th[t].copied] = Closed
        /\ content[Tty] = <<Pre>>
        /\ content[Cap(t)] = <<Raw(t), Buffered(t)>>

\* thread t constructs a Module in this step
Constructs(t) == th'[t].log = Append(th[t].log, "Module")

\* C19: constructing a Module while Module.cache is populated counts one
\* RuntimeWarning, raises nothing and leaves Module.cache the instance it was;
\* constructing one while the cache is empty warns nothing and leaves the
\* cache empty.
C19_ConstructionLeavesCache ==
    [][\A t \in Threads :
          Constructs(t) =>
             /\ cache' = cache
             /\ th'[t].exc = "none"
             /\ th'[t].inst.id # 0
             /\ cache # None => (warned' = warned + 1 /\ cache' # th'[t].inst)
             /\ cache = None => warned' = warned]_vars

C19_Witness ==
    \E t \in Threads :
        /\ th[t].entry = "Module" /\ th[t].pc = "done" /\ th[t].exc = "none"
        /\ th[t].inst.id = 2
        /\ cache # None /\ cache # th[t].inst /\ cache = firstOk
        /\ warned = 1

\* thread t is inside _silence, between os.dup and the end of the with
\* statement
InSilence(t) ==
    th[t].pc \in {"sil_flush", "sil_mkstemp", "sil_dup2", "compile", "replay",
                  "sil_fin_flush", "sil_fin_restore", "sil_fin_close",
                  "sil_close_copied"}

\* C20: however _silence is left (the region returned, the region raised,
\* mkstemp failed or the redirecting dup2 failed), the duplicate and the
\* capture file's descriptor are closed: with no thread inside _silence the
\* open descriptors are the three the process started with.
C20_DescriptorNeutral ==
    (\A t \in Threads : ~InSilence(t)) =>
        \A f \in Fds : fdt[f] # Closed => f \in {0, StdoutFd, 2}

====
